---------------------------- MODULE Spec2Model ----------------------------
(***************************************************************************)
(* A model of terraform-provider-remote-host: the SSH connection registry  *)
(* (services.SSHService), the command executor with its output scrubbing,  *)
(* and the remote-file resolver (getFile).                                 *)
(*                                                                         *)
(* Go strings are modelled as sequences of one-character strings, so that  *)
(* strings.Split, strings.Join, strings.Contains and strings.TrimSpace are *)
(* computed character by character, as the library computes them.          *)
(***************************************************************************)
EXTENDS Naturals, Integers, Sequences, FiniteSets, TLC

VARIABLES
    connections,  \* SSHService.connections: sequence of [host, client]
    allocated,    \* FALSE while SSHService.connections is the nil slice
    dials,        \* number of ssh.Dial calls made so far
    closed,       \* the clients whose transport was closed
    sessions,     \* number of sessions allocated and not yet closed
    history,      \* Server.History of every Server object
    last,         \* what another resource did to the service meanwhile
    pc,           \* position of every caller in its call
    loc,          \* locals of every caller: its call and what it returns
    inp,          \* inputs of the function under study (pure-function specs)
    out           \* its outputs

vars == <<connections, allocated, dials, closed, sessions, history, last,
          pc, loc, inp, out>>

svcVars == <<connections, allocated, dials, closed, sessions, history, last>>

-----------------------------------------------------------------------------
(* Bounds of the model.                                                    *)

\* number of pieces a generated stdout is concatenated from
MaxPieces == 4

\* length of the server list handed to NewSSHService
MaxHosts == 2

\* dials made on one service, those of its construction included
MaxDials == 2

\* commands run on one service
MaxExec == 2

\* resources calling the shared service at the same time
NumProcs == 2

-----------------------------------------------------------------------------
(* Strings.                                                                *)

NL == "\n"

\* the literal "[sudo] password for"
SudoMarker ==
    <<"[", "s", "u", "d", "o", "]", " ", "p", "a", "s", "s", "w", "o", "r",
      "d", " ", "f", "o", "r">>

\* strings.Contains(s, sub): sub occurs in s as a contiguous substring
Contains(s, sub) ==
    /\ Len(sub) <= Len(s)
    /\ \E i \in 0..(Len(s) - Len(sub)) : SubSeq(s, i + 1, i + Len(sub)) = sub

\* index of the first occurrence of character c in s, 0 when there is none
IndexByte(s, c) ==
    IF \E i \in 1..Len(s) : s[i] = c
    THEN CHOOSE i \in 1..Len(s) : s[i] = c /\ \A j \in 1..(i - 1) : s[j] # c
    ELSE 0

RECURSIVE Split(_, _)
\* strings.Split(s, sep) for a one-character separator
Split(s, sep) ==
    LET i == IndexByte(s, sep) IN
    IF i = 0 THEN <<s>>
    ELSE <<SubSeq(s, 1, i - 1)>> \o Split(SubSeq(s, i + 1, Len(s)), sep)

RECURSIVE Join(_, _)
\* strings.Join(elems, sep) for a one-character separator
Join(elems, sep) ==
    IF Len(elems) = 0 THEN <<>>
    ELSE IF Len(elems) = 1 THEN elems[1]
    ELSE elems[1] \o <<sep>> \o Join(Tail(elems), sep)

\* the vertical tab, U+000B: the character stands in the string as it is
VT == ""

\* the white space of unicode.IsSpace outside ASCII that a string of this
\* module can hold: U+0085, U+00A0, U+1680, each standing in its string as it
\* is.  The others (U+2000 to U+200A, U+2028, U+2029, U+202F, U+205F, U+3000)
\* cannot be written in a string here, so no text of the model holds them.
WideSpace == {"", " ", " "}

\* the white space strings.TrimSpace cuts: unicode.IsSpace
IsSpace(c) == c \in {" ", "\t", "\n", VT, "\f", "\r"} \cup WideSpace

\* strings.TrimSpace(s)
TrimSpace(s) ==
    LET keep == {i \in 1..Len(s) : ~IsSpace(s[i])} IN
    IF keep = {} THEN <<>>
    ELSE LET lo == CHOOSE i \in keep : \A j \in keep : i <= j
             hi == CHOOSE i \in keep : \A j \in keep : j <= i
         IN SubSeq(s, lo, hi)

RECURSIVE SelectLinesMarkerOnly(_, _, _)
\* SelectLines with the password test forgotten
SelectLinesMarkerOnly(elems, password, k) ==
    IF k > Len(elems) THEN <<>>
    ELSE (IF ~Contains(elems[k], SudoMarker) THEN <<elems[k]>> ELSE <<>>)
         \o SelectLinesMarkerOnly(elems, password, k + 1)

RECURSIVE SelectLines(_, _, _)
\* the filter loop of extractSudoPasswordFromOutput, from line k on: the lines
\* that contain neither the password nor the prompt marker, in order
SelectLines(elems, password, k) ==
    IF k > Len(elems) THEN <<>>
    ELSE (IF ~Contains(elems[k], password) /\ ~Contains(elems[k], SudoMarker)
          THEN <<elems[k]>> ELSE <<>>)
         \o SelectLines(elems, password, k + 1)

\* extractSudoPasswordFromOutput with the echo-only branch dropping every line
\* that contains the password instead of the first line alone
extractDropsEveryEcho(stdout, password) ==
    LET commandOutput == Split(stdout, NL) IN
    IF Contains(stdout, SudoMarker)
    THEN Join(SelectLines(commandOutput, password, 1), NL)
    ELSE Join(SelectLines(commandOutput, password, 1), NL)

\* extractSudoPasswordFromOutput: the new content of the stdout buffer
extractSudoPasswordFromOutput(stdout, password) ==
    LET commandOutput == Split(stdout, NL) IN
    IF Contains(stdout, SudoMarker)
    THEN Join(SelectLines(commandOutput, password, 1), NL)
    ELSE IF Len(commandOutput) > 0 /\ Contains(commandOutput[1], password)
         THEN Join(Tail(commandOutput), NL)
         ELSE Join(commandOutput, NL)


-----------------------------------------------------------------------------
(* Errors and values of the service.                                       *)

Nil == [kind |-> "nil"]

\* a nil *ServerCommand
NoResult == [nil |-> TRUE]

\* fmt.Errorf("no connection found for server %s", server.Name)
NotFoundError(name) == [kind |-> "no connection found", name |-> name]

\* *ssh.ExitError with the remote exit status
ExitError(status) == [kind |-> "ssh.ExitError", status |-> status]

\* int8(n) of a Go int: the low eight bits, read as two's complement
Int8(n) == ((n + 128) % 256) - 128

\* Server.GetFullAddress
GetFullAddress(s) == <<s.Address, s.Port>>

\* extractExitCode
extractExitCode(err) ==
    IF err.kind = "ssh.ExitError" THEN Int8(err.status) ELSE 0

\* createSSHClient(host) in an environment env that says whether the key file
\* can be read, whether it parses, and whether the dial and handshake succeed:
\* the error returned, the authentication methods offered, the address dialed
createSSHClient(host, env) ==
    LET pw == IF Len(host.Password) > 0 THEN <<"password">> ELSE <<>>
        none == [err |-> Nil, auth |-> <<>>, dialed |-> FALSE, addr |-> <<>>]
        dial(auth) ==
            [err |-> IF env.dial THEN Nil ELSE [kind |-> "dial"],
             auth |-> auth, dialed |-> TRUE, addr |-> GetFullAddress(host)]
    IN  IF Len(host.PrivateKeyPath) > 0
        THEN IF ~env.keyRead /\ host.Password = <<>>
             THEN [none EXCEPT !.err = [kind |-> "FileNotFoundError"]]
             ELSE IF ~env.keyRead \/ ~env.keyParse
                  THEN [none EXCEPT !.err = [kind |-> "ParsePrivateKey"]]
                  ELSE dial(pw \o <<"publickey">>)
        ELSE dial(pw)

\* the lookup with the found host ignored: every open dials
FindNothing(conns, name) == 0

\* the lookup loops of NewSSHService, OpenConnection and ExecuteCommand: the
\* index of the first connection registered under name, 0 when there is none
FindByName(conns, name) ==
    IF \E i \in 1..Len(conns) : conns[i].host.Name = name
    THEN CHOOSE i \in 1..Len(conns) :
            /\ conns[i].host.Name = name
            /\ \A j \in 1..(i - 1) : conns[j].host.Name # name
    ELSE 0

RECURSIVE NewSSHServiceFrom(_, _, _, _)
\* the loop of NewSSHService over hosts, envs[i] being the environment of the
\* i-th host's createSSHClient: the registry built and the dials made
NewSSHServiceFrom(hosts, envs, conns, n) ==
    IF Len(hosts) = 0 THEN [connections |-> conns, dials |-> n]
    ELSE IF FindByName(conns, hosts[1].Name) # 0
         THEN NewSSHServiceFrom(Tail(hosts), Tail(envs), conns, n)
         ELSE LET c == createSSHClient(hosts[1], envs[1]) IN
              NewSSHServiceFrom(Tail(hosts), Tail(envs),
                  IF c.err = Nil
                  THEN Append(conns, [host |-> hosts[1], client |-> n + 1])
                  ELSE conns,
                  IF c.dialed THEN n + 1 ELSE n)

\* NewSSHService(hosts)
NewSSHService(hosts, envs) == NewSSHServiceFrom(hosts, envs, <<>>, 0)

\* the append to server.History putting the result in front
PrependHistory(h, result) == <<result>> \o h

\* server.History = append(server.History, serverCommand)
AppendHistory(h, result) == Append(h, result)

-----------------------------------------------------------------------------
(* Generated inputs.                                                       *)

RECURSIVE Flatten(_)
Flatten(ps) == IF Len(ps) = 0 THEN <<>> ELSE ps[1] \o Flatten(Tail(ps))

SeqsUpTo(S, n) == UNION {[1..k -> S] : k \in 0..n}

Secret123 == <<"s", "e", "c", "r", "e", "t", "1", "2", "3">>
Hello == <<"h", "e", "l", "l", "o">>
Alice == <<" ", "a", "l", "i", "c", "e", ":">>

\* the pieces a captured stdout is made of in the scrubbing study
ScrubPieces == {<<NL>>, SudoMarker, <<"p", "w">>, <<"p">>, <<"h">>}

ScrubPasswords == {<<>>, <<"p", "w">>, <<"w", NL, "h">>, Secret123}

\* the two outputs of the specification's examples
ScrubExamples ==
    { SudoMarker \o Alice \o <<NL>> \o Secret123 \o <<NL>> \o Hello \o <<NL>>,
      Secret123 \o <<NL>> \o Hello \o <<NL>> }

ScrubStdouts ==
    {Flatten(ps) : ps \in SeqsUpTo(ScrubPieces, MaxPieces)} \cup ScrubExamples

NoService ==
    /\ connections = <<>>
    /\ allocated = FALSE
    /\ dials = 0
    /\ closed = {}
    /\ sessions = 0
    /\ history = <<>>
    /\ last = [op |-> "none"]
    /\ pc = <<>>
    /\ loc = <<>>

-----------------------------------------------------------------------------
(* The service, called sequentially.                                       *)

Pw == <<"p", "w">>

\* the Server objects of the callers: two of them carry the same name
SrvA1 ==
    [id |-> 1, Name |-> <<"a">>, Address |-> <<"h", "1">>, Port |-> 22,
     User |-> <<"u">>, Password |-> Pw, PrivateKeyPath |-> <<>>,
     SudoPassword |-> <<>>]

SrvA2 ==
    [id |-> 2, Name |-> <<"a">>, Address |-> <<"h", "2">>, Port |-> 22,
     User |-> <<"v">>, Password |-> <<>>, PrivateKeyPath |-> <<"k">>,
     SudoPassword |-> Pw]

SrvB ==
    [id |-> 3, Name |-> <<"b">>, Address |-> <<"h", "1">>, Port |-> 22,
     User |-> <<"u">>, Password |-> Pw, PrivateKeyPath |-> <<"k">>,
     SudoPassword |-> Pw]

Servers == {SrvA1, SrvA2, SrvB}

ServerIds == {s.id : s \in Servers}

\* what createSSHClient can meet: all well, a refused or failed dial, a key
\* file that cannot be read, a key file that does not parse
DialEnvs ==
    { [keyRead |-> TRUE, keyParse |-> TRUE, dial |-> TRUE],
      [keyRead |-> TRUE, keyParse |-> TRUE, dial |-> FALSE],
      [keyRead |-> FALSE, keyParse |-> FALSE, dial |-> TRUE],
      [keyRead |-> TRUE, keyParse |-> FALSE, dial |-> TRUE] }

Commands == {<<"c", "1">>}

NoSuchFile == <<"N", "o">>

\* what ExecuteCommand can meet: a refused session, a refused pseudo-terminal,
\* a clean run, a run ended by a remote exit status, a run ended otherwise
ExecEnvs ==
    { [session |-> FALSE, pty |-> TRUE, run |-> Nil, stdout |-> <<>>,
       stderr |-> <<>>],
      [session |-> TRUE, pty |-> FALSE, run |-> Nil, stdout |-> <<>>,
       stderr |-> <<>>],
      [session |-> TRUE, pty |-> TRUE, run |-> Nil,
       stdout |-> Pw \o <<NL>> \o <<"h">> \o <<NL>>, stderr |-> <<>>],
      [session |-> TRUE, pty |-> TRUE, run |-> ExitError(200),
       stdout |-> <<NL>>, stderr |-> NoSuchFile],
      [session |-> TRUE, pty |-> TRUE, run |-> [kind |-> "io"],
       stdout |-> <<>>, stderr |-> <<>>] }

\* the resource that calls the service when calls are made one after another
Callers == {1}

\* a caller between two calls
IdleCaller == [server |-> "none"]

\* what a call finds when it is made
AtCall ==
    [connections |-> connections, dials |-> dials, history |-> history,
     closed |-> closed]

Executed == Len(history[1]) + Len(history[2]) + Len(history[3])

\* CloseConnection removing the closed connection from the registry
ClosePurges(p, i) ==
    /\ pc[p] = "idle"
    /\ closed' = closed \cup {connections[i].client}
    /\ connections' = SubSeq(connections, 1, i - 1)
                         \o SubSeq(connections, i + 1, Len(connections))
    /\ pc' = [pc EXCEPT ![p] = "done"]
    /\ loc' = [loc EXCEPT ![p] =
                 [op |-> "CloseConnection", client |-> connections[i].client,
                  err |-> IF connections[i].client \in closed
                          THEN [kind |-> "closed"] ELSE Nil,
                  atCall |-> AtCall]]
    /\ UNCHANGED <<allocated, dials, sessions, history, last, inp, out>>

\* caller p calls CloseConnection on the i-th connection of GetConnections():
\* connection.client.Close(), and its error returned
Close(p, i) ==
    /\ pc[p] = "idle"
    /\ closed' = closed \cup {connections[i].client}
    /\ pc' = [pc EXCEPT ![p] = "done"]
    /\ loc' = [loc EXCEPT ![p] =
                 [op |-> "CloseConnection", client |-> connections[i].client,
                  err |-> IF connections[i].client \in closed
                          THEN [kind |-> "closed"] ELSE Nil,
                  atCall |-> AtCall]]
    /\ UNCHANGED <<connections, allocated, dials, sessions, history, last,
                   inp, out>>

\* the call of caller p has returned and the caller goes on
Return(p) ==
    /\ pc[p] = "done"
    /\ pc' = [pc EXCEPT ![p] = "idle"]
    /\ loc' = [loc EXCEPT ![p] = IdleCaller]
    /\ UNCHANGED <<svcVars, inp, out>>

-----------------------------------------------------------------------------
(* The service of provider.Configure, shared by resources whose            *)
(* OpenConnection calls run at the same time.  SSHService holds no lock:   *)
(* a call is a series of reads and writes of service.connections, and the  *)
(* calls interleave between them.  The slice header is taken to be read    *)
(* and written in one piece.                                               *)

Procs == 1..NumProcs

InitConc ==
    /\ connections = <<>>
    /\ allocated = FALSE
    /\ dials = 0
    /\ closed = {}
    /\ sessions = 0
    /\ history = [i \in ServerIds |-> <<>>]
    /\ last = [op |-> "new"]
    /\ pc = [p \in Procs |-> "idle"]
    /\ loc = [p \in Procs |-> IdleCaller]
    /\ inp = <<>>
    /\ out = <<>>

ConcUnchanged == <<closed, sessions, history, last, inp, out>>

\* resource p calls OpenConnection(host)
CallOpen(p, host, env) ==
    /\ pc[p] = "idle"
    /\ pc' = [pc EXCEPT ![p] = "nilcheck"]
    /\ loc' = [loc EXCEPT ![p] =
                 [op |-> "OpenConnection", host |-> host, env |-> env,
                  err |-> Nil, client |-> 0, slice |-> <<>>,
                  dialed |-> FALSE, auth |-> <<>>, atCall |-> AtCall]]
    /\ UNCHANGED <<connections, allocated, dials, ConcUnchanged>>

\* line 91: if service.connections == nil
NilCheck(p) ==
    /\ pc[p] = "nilcheck"
    /\ pc' = [pc EXCEPT ![p] = IF allocated THEN "lookup" ELSE "makeslice"]
    /\ UNCHANGED <<connections, allocated, dials, loc, ConcUnchanged>>

\* line 92: service.connections = []SSHConnection{}
MakeSlice(p) ==
    /\ pc[p] = "makeslice"
    /\ connections' = <<>>
    /\ allocated' = TRUE
    /\ pc' = [pc EXCEPT ![p] = "lookup"]
    /\ UNCHANGED <<dials, loc, ConcUnchanged>>

\* the lookup loop comparing the Server objects instead of their names
LookupByObject(p) ==
    /\ pc[p] = "lookup"
    /\ pc' = [pc EXCEPT ![p] =
                IF \E i \in 1..Len(connections) :
                      connections[i].host.id = loc[p].host.id
                THEN "done" ELSE "dial"]
    /\ UNCHANGED <<connections, allocated, dials, loc, ConcUnchanged>>

\* lines 94-102: the lookup loop over the slice as it is now
Lookup(p) ==
    /\ pc[p] = "lookup"
    /\ pc' = [pc EXCEPT ![p] =
                IF FindByName(connections, loc[p].host.Name) # 0
                THEN "done" ELSE "dial"]
    /\ UNCHANGED <<connections, allocated, dials, loc, ConcUnchanged>>

\* lines 104-111: createSSHClient
Dial(p) ==
    /\ pc[p] = "dial"
    /\ LET c == createSSHClient(loc[p].host, loc[p].env) IN
       /\ dials' = IF c.dialed THEN dials + 1 ELSE dials
       /\ loc' = [loc EXCEPT ![p].err = c.err,
                             ![p].client = IF c.err = Nil THEN dials + 1 ELSE 0,
                             ![p].dialed = c.dialed,
                             ![p].auth = c.auth]
       /\ pc' = [pc EXCEPT ![p] = IF c.err = Nil THEN "append" ELSE "done"]
    /\ UNCHANGED <<connections, allocated, ConcUnchanged>>

\* line 112, the read: append(service.connections, connection) is computed
ReadSlice(p) ==
    /\ pc[p] = "append"
    /\ loc' = [loc EXCEPT ![p].slice =
                 Append(connections,
                        [host |-> loc[p].host, client |-> loc[p].client])]
    /\ pc' = [pc EXCEPT ![p] = "assign"]
    /\ UNCHANGED <<connections, allocated, dials, ConcUnchanged>>

\* line 112, the write: service.connections = ...
WriteSlice(p) ==
    /\ pc[p] = "assign"
    /\ connections' = loc[p].slice
    /\ pc' = [pc EXCEPT ![p] = "done"]
    /\ UNCHANGED <<allocated, dials, loc, ConcUnchanged>>

NextConc ==
    \E p \in Procs :
        \/ \E host \in Servers, env \in DialEnvs : CallOpen(p, host, env)
        \/ NilCheck(p)
        \/ MakeSlice(p)
        \/ Lookup(p)
        \/ Dial(p)
        \/ ReadSlice(p)
        \/ WriteSlice(p)

SpecConc == InitConc /\ [][NextConc]_vars

-----------------------------------------------------------------------------
(* The remote-file resolver.                                               *)

\* *ExitCodeError
ExitCodeError(code, stderr) ==
    [kind |-> "ExitCodeError", code |-> code, stderr |-> stderr]

\* types.StringValue(v), and a value the resource has not set
StringValue(v) == [known |-> TRUE, value |-> v]
Unknown == [known |-> FALSE, value |-> <<>>]

StatText == <<"s", "t", "a", "t", " ", "-", "c", " ", "'", "%", "i", "'", " ">>
CatText == <<"c", "a", "t", " ">>
SudoText == <<"s", "u", "d", "o", " ">>

\* fmt.Sprintf("%sstat -c '%%i' %s; %scat %s", sudoText, path, sudoText, path)
combinedCmd(data) ==
    LET sudoText == IF data.Privileged THEN SudoText ELSE <<>> IN
    sudoText \o StatText \o data.Path \o <<";", " ">> \o sudoText \o CatText
        \o data.Path

\* a getFile that stores the password of host_connection as the sudoPassword
ServerOfDataWithSudoPassword(data) ==
    [id |-> "getFile", Name |-> data.Host, Address |-> data.Host, Port |-> 22,
     User |-> data.User, Password |-> <<>>,
     PrivateKeyPath |-> data.PrivateKey, SudoPassword |-> data.Password]

\* the Server that getFile builds from the resource's host_connection
ServerOfData(data) ==
    [id |-> "getFile", Name |-> data.Host, Address |-> data.Host, Port |-> 22,
     User |-> data.User, Password |-> <<>>,
     PrivateKeyPath |-> data.PrivateKey, SudoPassword |-> <<>>]

\* getFile's reading of the command's stdout with the inode taken untrimmed
\* from the first line
parseOutputFirstLine(data, stdout) ==
    LET outputs == Split(stdout, NL) IN
    IF Len(outputs) < 2
    THEN [panic |-> TRUE, data |-> data]
    ELSE LET content == Join(SubSeq(outputs, 3, Len(outputs)), NL) IN
         [panic |-> FALSE,
          data |-> [data EXCEPT
             !.Id = StringValue(data.Host \o <<"-">> \o outputs[1]),
             !.Content = StringValue(IF data.Sensitive THEN <<>> ELSE content),
             !.SensitiveContent =
                 StringValue(IF data.Sensitive THEN content ELSE <<>>)]]

\* getFile's reading of the command's stdout with the content put in both
\* fields
parseOutputBothFields(data, stdout) ==
    LET outputs == Split(stdout, NL) IN
    IF Len(outputs) < 2
    THEN [panic |-> TRUE, data |-> data]
    ELSE LET inode == TrimSpace(outputs[2])
             content == Join(SubSeq(outputs, 3, Len(outputs)), NL)
         IN [panic |-> FALSE,
             data |-> [data EXCEPT
                !.Id = StringValue(data.Host \o <<"-">> \o inode),
                !.Content = StringValue(content),
                !.SensitiveContent = StringValue(content)]]

\* lines 183-199 of getFile: outputs[1] and outputs[2:] of the source are
\* outputs[2] and SubSeq(outputs, 3, ..) here; indexing a slice of fewer than
\* two lines panics
parseOutput(data, stdout) ==
    LET outputs == Split(stdout, NL) IN
    IF Len(outputs) < 2
    THEN [panic |-> TRUE, data |-> data]
    ELSE LET inode == TrimSpace(outputs[2])
             content == Join(SubSeq(outputs, 3, Len(outputs)), NL)
         IN [panic |-> FALSE,
             data |-> [data EXCEPT
                !.Id = StringValue(data.Host \o <<"-">> \o inode),
                !.Content = StringValue(IF data.Sensitive THEN <<>> ELSE content),
                !.SensitiveContent =
                    StringValue(IF data.Sensitive THEN content ELSE <<>>)]]

\* Create and Read, after getFile returned err: the diagnostics added to the
\* response.  The first test takes every non-nil error; errors.As on the
\* error that is left finds an ExitCodeError only if there is one.
Diagnostics(err) ==
    IF err # Nil
    THEN <<[summary |-> "SSH Error",
            detail |-> "Unable to execute commands, got error: %s",
            cause |-> err]>>
    ELSE IF err.kind = "ExitCodeError"
    THEN <<[summary |-> "Command Error",
            detail |-> "Unable to get file info: %s",
            cause |-> err]>>
    ELSE <<>>

Host == <<"1", "0", ".", "0", ".", "0", ".", "5">>
Inode1042 == <<"1", "0", "4", "2">>
Line1 == <<"l", "i", "n", "e", "1">>
Line2 == <<"l", "i", "n", "e", "2">>
NoSuchFileText ==
    <<"N", "o", " ", "s", "u", "c", "h", " ", "f", "i", "l", "e">>
PathText == <<"/", "f">>

\* "\n1042\nline1\nline2\n"
ParseExample ==
    <<NL>> \o Inode1042 \o <<NL>> \o Line1 \o <<NL>> \o Line2 \o <<NL>>

\* the pieces a remote stdout is made of in the resolver study
FilePieces == {<<NL>>, <<"7">>, <<" ">>, <<"h">>, SudoMarker}

\* the remote's stdout: generated, the example as it is, and the example
\* behind the echoed line of the primed standard input
FileStdouts ==
    {Flatten(ps) : ps \in SeqsUpTo(FilePieces, MaxPieces)}
        \cup {ParseExample, <<NL>> \o ParseExample,
              <<"\r", NL>> \o Inode1042 \o <<"\r", NL>> \o Line1 \o <<"\r", NL>>,
              <<NL, VT>> \o Inode1042 \o <<VT, NL>> \o Line1,
              <<NL, " ">> \o Inode1042 \o <<" ", NL>> \o Line1}

\* the resource model as Create receives it from the plan (nothing computed
\* yet) and as Read receives it from the prior state
PlanData(privileged, sensitive, key) ==
    [Host |-> Host, User |-> <<"u">>, PrivateKey |-> key, Password |-> Pw,
     Path |-> PathText, Privileged |-> privileged, Sensitive |-> sensitive,
     Id |-> Unknown, Content |-> Unknown, SensitiveContent |-> Unknown]

StateData(privileged, sensitive, key) ==
    [PlanData(privileged, sensitive, key) EXCEPT
        !.Id = StringValue(Host \o <<"-">> \o <<"7">>),
        !.Content = StringValue(IF sensitive THEN <<>> ELSE <<"o", "l", "d">>),
        !.SensitiveContent =
            StringValue(IF sensitive THEN <<"o", "l", "d">> ELSE <<>>)]

DialOK == [keyRead |-> TRUE, keyParse |-> TRUE, dial |-> TRUE]

CleanRun(stdout) ==
    [session |-> TRUE, pty |-> TRUE, run |-> Nil, stdout |-> stdout,
     stderr |-> <<>>]

\* runs that end with an error, and calls that do not reach the run
FailingEnvs ==
    { [session |-> FALSE, pty |-> TRUE, run |-> Nil, stdout |-> <<>>,
       stderr |-> <<>>],
      [session |-> TRUE, pty |-> FALSE, run |-> Nil, stdout |-> <<>>,
       stderr |-> <<>>],
      [session |-> TRUE, pty |-> TRUE, run |-> [kind |-> "io"],
       stdout |-> <<NL>>, stderr |-> <<>>] }
    \cup { [session |-> TRUE, pty |-> TRUE, run |-> ExitError(status),
            stdout |-> stdout, stderr |-> NoSuchFileText] :
              status \in {1, 2, 200, 256},
              stdout \in {<<NL>>, <<NL>> \o ParseExample} }

\* the registry before the call: empty, or holding the connection that an
\* earlier getFile of the same host registered
Registries ==
    { <<>>,
      <<[host |-> [ServerOfData(PlanData(FALSE, FALSE, <<>>)) EXCEPT
                      !.id = "earlier getFile"],
         client |-> 1]>> }

\* what the OpenConnection of another resource, running at the same time on
\* the shared service, writes between the two service calls of getFile:
\* nothing, the empty slice of line 92, or the slice it read before getFile
\* registered its connection with its own connection appended (line 112),
\* for the same host or for another one
OtherWrites == {"none", "makeslice", "append same name", "append other name"}

OtherHost == <<"1", "0", ".", "0", ".", "0", ".", "9">>

FileInputs ==
    [data : {PlanData(FALSE, s, <<>>) : s \in BOOLEAN}
              \cup {StateData(FALSE, s, <<>>) : s \in BOOLEAN},
     registry : Registries,
     dialEnv : {DialOK},
     execEnv : {CleanRun(stdout) : stdout \in FileStdouts},
     other : {"none"}]
    \cup
    [data : {PlanData(pr, s, k) : pr \in BOOLEAN, s \in BOOLEAN,
                                  k \in {<<>>, <<"k">>}}
              \cup {StateData(TRUE, s, <<>>) : s \in BOOLEAN},
     registry : Registries,
     dialEnv : DialEnvs,
     execEnv : FailingEnvs \cup {CleanRun(<<NL>> \o ParseExample)},
     other : OtherWrites]

\* the History of the Server that getFile builds
FileServerIds == {"getFile"}

InitFile ==
    /\ inp \in FileInputs
    /\ out = [done |-> FALSE, phase |-> "new"]
    /\ connections = inp.registry
    /\ allocated = (Len(inp.registry) > 0)
    /\ dials = Len(inp.registry)
    /\ closed = {}
    /\ sessions = 0
    /\ history = [i \in FileServerIds |-> <<>>]
    /\ last = [op |-> "none"]
    /\ pc = [p \in Callers |-> "idle"]
    /\ loc = [p \in Callers |-> IdleCaller]

-----------------------------------------------------------------------------
(* The scrubbing study: extractSudoPasswordFromOutput on generated inputs. *)

InitScrub ==
    /\ NoService
    /\ inp \in [stdout : ScrubStdouts, password : ScrubPasswords]
    /\ out = [done |-> FALSE]

Scrub ==
    /\ out.done = FALSE
    /\ out' = [done |-> TRUE,
               stdout |-> extractSudoPasswordFromOutput(inp.stdout, inp.password)]
    /\ UNCHANGED <<svcVars, pc, loc, inp>>

NextScrub == Scrub

SpecScrub == InitScrub /\ [][NextScrub]_vars

-----------------------------------------------------------------------------
(* Claims about the service called sequentially (checked under Spec).      *)

\* the number of connections registered under name
CountName(conns, name) ==
    Cardinality({i \in 1..Len(conns) : conns[i].host.Name = name})

\* C1: in every state reached by OpenConnection, ExecuteCommand and
\* CloseConnection calls, from the empty service or from one built by
\* NewSSHService, the registry holds at most one connection per server name.
C1_AtMostOnePerName ==
    \A s \in Servers : CountName(connections, s.Name) <= 1

\* caller p is in a call of op, or has just returned from it
InCall(p, op) == pc[p] # "idle" /\ loc[p].op = op

\* the call of op that caller p made has returned
DoneCall(p, op) == pc[p] = "done" /\ loc[p].op = op

\* OpenConnection was called with a second Server object of a registered
\* name, while another name is registered too
C1_Witness ==
    \E p \in Callers :
        /\ DoneCall(p, "OpenConnection")
        /\ Len(connections) = 2
        /\ \E i \in 1..Len(connections) :
              /\ connections[i].host.Name = loc[p].host.Name
              /\ connections[i].host.id # loc[p].host.id

\* C2: an OpenConnection call for a name that is registered when the call is
\* made returns success, dials nothing and leaves the registry unchanged,
\* whichever Server object carries the name; one connection stays registered
\* for the name.
C2_IdempotentOpen ==
    \A p \in Callers :
        ( /\ InCall(p, "OpenConnection")
          /\ FindByName(loc[p].atCall.connections, loc[p].host.Name) # 0 )
        => ( /\ pc[p] \in {"nilcheck", "lookup", "done"}
             /\ loc[p].err = Nil
             /\ loc[p].dialed = FALSE
             /\ dials = loc[p].atCall.dials
             /\ connections = loc[p].atCall.connections
             /\ CountName(connections, loc[p].host.Name) = 1 )

\* a second open returned success without a dial, for another Server object
\* than the registered one, on a service where one dial was made
C2_Witness ==
    \E p \in Callers :
        /\ DoneCall(p, "OpenConnection")
        /\ loc[p].err = Nil
        /\ loc[p].dialed = FALSE
        /\ dials = 1
        /\ Len(connections) = 1
        /\ connections[1].host.id # loc[p].host.id

\* C4: ExecuteCommand for a server whose name has no entry in the registry
\* fails with the not-found error, returns no result, allocates no session,
\* and leaves the registry and every history unchanged.
C4_ExecuteNotFound ==
    \A p \in Callers :
        ( /\ InCall(p, "ExecuteCommand")
          /\ FindByName(loc[p].atCall.connections, loc[p].server.Name) = 0 )
        => ( /\ pc[p] \in {"find", "done"}
             /\ pc[p] = "done"
                   => loc[p].err = NotFoundError(loc[p].server.Name)
             /\ loc[p].result = NoResult
             /\ loc[p].opened = 0
             /\ loc[p].ran = FALSE
             /\ sessions = 0
             /\ connections = loc[p].atCall.connections
             /\ dials = loc[p].atCall.dials
             /\ closed = loc[p].atCall.closed
             /\ history = loc[p].atCall.history )

\* the not-found error was returned by a service that holds a live connection
\* of another name
C4_Witness ==
    \E p \in Callers :
        /\ DoneCall(p, "ExecuteCommand")
        /\ loc[p].err.kind = "no connection found"
        /\ Len(connections) > 0
        /\ connections[1].client \notin closed

-----------------------------------------------------------------------------
(* Claims about concurrent callers (checked under SpecConc).               *)

AllReturned == \A p \in Procs : pc[p] = "done"

\* C3: however OpenConnection calls for one server name interleave, the
\* registry ends with at most one connection for that name, and no connection
\* that a call registered is lost.
C3_ExclusiveLookupOrInsert ==
    AllReturned =>
        /\ \A s \in Servers : CountName(connections, s.Name) <= 1
        /\ \A p \in Procs :
              loc[p].client # 0 =>
                 \E i \in 1..Len(connections) :
                    connections[i].client = loc[p].client

-----------------------------------------------------------------------------
(* Claims about the resolver (checked under SpecFile).                     *)

\* the command of the call was run (the connection, the session and the
\* pseudo-terminal were obtained)
FileRan == out.done /\ out.ran

\* the identity and content fields of the model are as they were
NotPopulated ==
    /\ out.data.Id = inp.data.Id
    /\ out.data.Content = inp.data.Content
    /\ out.data.SensitiveContent = inp.data.SensitiveContent

\* C5: when the combined command exits with a non-zero code c and stderr s,
\* getFile fails with an ExitCodeError carrying exactly c and s, and the
\* model's id, content and sensitive_content are not populated.
C5_NonZeroExitPropagates ==
    (FileRan /\ inp.execEnv.run.kind = "ssh.ExitError") =>
        /\ out.status = "error"
        /\ out.err = ExitCodeError(inp.execEnv.run.status, inp.execEnv.stderr)
        /\ NotPopulated

\* C6: for every run that ends with exit code 0, whatever its stdout, getFile
\* returns a populated state or an error, and never aborts.
C6_TotalOnOutput ==
    (FileRan /\ inp.execEnv.run = Nil) => out.status \in {"ok", "error"}

\* the lines of the stdout of the command result that getFile parsed
ResultLines == Split(out.command.Stdout, NL)

\* the file content: the lines after the inode line, joined by newlines
FileContent == Join(SubSeq(ResultLines, 3, Len(ResultLines)), NL)

Selected == IF inp.data.Sensitive THEN out.data.SensitiveContent
            ELSE out.data.Content

NotSelected == IF inp.data.Sensitive THEN out.data.Content
               ELSE out.data.SensitiveContent

\* C7, as claimed: after every successful getFile exactly one of Content and
\* SensitiveContent is non-empty, and it is SensitiveContent exactly when the
\* sensitive flag is set, an empty file included.
C7_ExactlyOneNonEmpty ==
    (out.done /\ out.status = "ok") =>
        /\ (out.data.Content.value # <<>>)
              # (out.data.SensitiveContent.value # <<>>)
        /\ (out.data.SensitiveContent.value # <<>>) <=> inp.data.Sensitive

\* C7, amended: after every successful getFile both fields are set, the field
\* that the sensitive flag does not select is empty and the selected field
\* holds the file content; so exactly one of them is non-empty when the
\* content is non-empty, and both are empty when the file is empty.
C7_SensitivityPartition ==
    (out.done /\ out.status = "ok") =>
        /\ out.data.Content.known /\ out.data.SensitiveContent.known
        /\ NotSelected.value = <<>>
        /\ Selected.value = FileContent
        /\ FileContent # <<>> =>
              /\ (out.data.Content.value # <<>>)
                    # (out.data.SensitiveContent.value # <<>>)
              /\ (out.data.SensitiveContent.value # <<>>) <=> inp.data.Sensitive
        /\ FileContent = <<>> =>
              /\ out.data.Content.value = <<>>
              /\ out.data.SensitiveContent.value = <<>>

\* a successful getFile of a sensitive file with content, over a prior state
\* that held other content
C7_Witness ==
    /\ out.done /\ out.status = "ok"
    /\ inp.data.Sensitive
    /\ inp.data.SensitiveContent.known
    /\ FileContent # <<>>
    /\ out.data.SensitiveContent.value # inp.data.SensitiveContent.value

\* the rule of C8: line 0 is discarded, the identity is the address, "-" and
\* the trimmed line 1, the content is lines 2..n joined by newlines
ParseRule ==
    (out.done /\ out.status = "ok") =>
        /\ Len(ResultLines) >= 2
        /\ out.data.Id = StringValue(inp.data.Host \o <<"-">>
                                        \o TrimSpace(ResultLines[2]))
        /\ Selected = StringValue(FileContent)
        /\ \A k \in 1..(Len(ResultLines) - 2) :
              Split(Selected.value, NL)[k] = ResultLines[k + 2]

IsParseExample ==
    /\ out.done /\ out.status = "ok"
    /\ out.command.Stdout = ParseExample
    /\ inp.data.Host = Host

\* C8, as claimed: the rule, and the result stdout "\n1042\nline1\nline2\n"
\* with address "10.0.0.5" yields identity "10.0.0.5-1042" and content
\* "line1\nline2".
C8_ParseAsClaimed ==
    /\ ParseRule
    /\ IsParseExample =>
          /\ out.data.Id.value = Host \o <<"-">> \o Inode1042
          /\ Selected.value = Line1 \o <<NL>> \o Line2

\* C8, amended: the rule, and the result stdout "\n1042\nline1\nline2\n" with
\* address "10.0.0.5" yields identity "10.0.0.5-1042" and content
\* "line1\nline2\n": the newline that ends the last line is part of the
\* content.
C8_ResolverParse ==
    /\ ParseRule
    /\ IsParseExample =>
          /\ out.data.Id.value = Host \o <<"-">> \o Inode1042
          /\ Selected.value = Line1 \o <<NL>> \o Line2 \o <<NL>>

\* the example was parsed into an identity and a content
C8_Witness ==
    /\ IsParseExample
    /\ out.data.Id.value = Host \o <<"-">> \o Inode1042
    /\ Len(ResultLines) = 5

-----------------------------------------------------------------------------
(* Claims about the scrubbing (checked under SpecScrub).                   *)

InLines == Split(inp.stdout, NL)

HasPrompt == \E i \in 1..Len(InLines) : Contains(InLines[i], SudoMarker)

\* the indices of the lines that hold neither the marker nor the password
KeptIdx ==
    {i \in 1..Len(InLines) :
        ~Contains(InLines[i], SudoMarker) /\ ~Contains(InLines[i], inp.password)}

\* those lines, in their original relative order
KeptLines ==
    [k \in 1..Cardinality(KeptIdx) |->
        InLines[CHOOSE i \in KeptIdx : Cardinality({j \in KeptIdx : j < i}) = k - 1]]

\* the text after the first newline of s (empty when s has no newline)
AfterFirstLine(s) ==
    IF IndexByte(s, NL) = 0 THEN <<>> ELSE SubSeq(s, IndexByte(s, NL) + 1, Len(s))

\* C9: when some line of the captured stdout holds "[sudo] password for", the
\* scrubbed stdout is exactly the lines that hold neither the marker nor the
\* password, in their original order, joined by newlines; no remaining line
\* holds the marker or the password; and the prompt example of the
\* specification scrubs to "hello\n".
C9_ScrubPromptForm ==
    (out.done /\ HasPrompt) =>
        /\ out.stdout = Join(KeptLines, NL)
        /\ Len(KeptLines) > 0 =>
              /\ Split(out.stdout, NL) = KeptLines
              /\ \A i \in 1..Len(Split(out.stdout, NL)) :
                    /\ ~Contains(Split(out.stdout, NL)[i], SudoMarker)
                    /\ ~Contains(Split(out.stdout, NL)[i], inp.password)
        /\ ~Contains(out.stdout, SudoMarker)
        /\ ( /\ inp.stdout = SudoMarker \o Alice \o <<NL>> \o Secret123
                               \o <<NL>> \o Hello \o <<NL>>
             /\ inp.password = Secret123 )
           => out.stdout = Hello \o <<NL>>

\* a prompt line and a password line were dropped and another line was kept
C9_Witness ==
    /\ out.done /\ HasPrompt
    /\ inp.password # <<>>
    /\ \E i \in 1..Len(InLines) :
          Contains(InLines[i], inp.password) /\ ~Contains(InLines[i], SudoMarker)
    /\ \E i \in KeptIdx : InLines[i] # <<>>

\* C10: when no line holds the prompt marker, the scrubbing removes the first
\* line alone, and only when that line holds the password; otherwise stdout
\* is unchanged byte for byte; the lines after the first are never removed or
\* altered; and the echo example of the specification scrubs to "hello\n".
C10_ScrubEchoForm ==
    (out.done /\ ~HasPrompt) =>
        /\ out.stdout = IF Contains(InLines[1], inp.password)
                        THEN AfterFirstLine(inp.stdout)
                        ELSE inp.stdout
        /\ (Contains(InLines[1], inp.password) /\ Len(InLines) > 1)
              => Split(out.stdout, NL) = Tail(InLines)
        /\ ~Contains(InLines[1], inp.password)
              => Split(out.stdout, NL) = InLines
        /\ (inp.stdout = Secret123 \o <<NL>> \o Hello \o <<NL>>
              /\ inp.password = Secret123)
           => out.stdout = Hello \o <<NL>>

\* the first line echoed the password and was dropped, while a later line that
\* also holds the password was kept
C10_Witness ==
    /\ out.done /\ ~HasPrompt
    /\ inp.password # <<>>
    /\ Contains(InLines[1], inp.password)
    /\ \E i \in 2..Len(InLines) : Contains(InLines[i], inp.password)
    /\ Contains(out.stdout, inp.password)

-----------------------------------------------------------------------------
(* The exit-code study: extractExitCode on the errors session.Run returns. *)

\* the largest remote exit status of the study
MaxExitStatus == 255

\* nil (the remote exited with status 0), a non-zero remote exit status, a
\* missing exit status, a transport error
RunErrors ==
    {Nil, [kind |-> "ssh.ExitMissingError"], [kind |-> "io"]}
        \cup {ExitError(n) : n \in 1..MaxExitStatus}

InitExit ==
    /\ NoService
    /\ inp \in [err : RunErrors]
    /\ out = [done |-> FALSE]

\* ExitCode: extractExitCode(err), as ExecuteCommand fills it
DeriveExitCode ==
    /\ out.done = FALSE
    /\ out' = [done |-> TRUE, ExitCode |-> extractExitCode(inp.err)]
    /\ UNCHANGED <<svcVars, pc, loc, inp>>

NextExit == DeriveExitCode

SpecExit == InitExit /\ [][NextExit]_vars

\* C11: for every remote exit status n in 0..255 reported by a
\* remote-exit-status error the ExitCode of the CommandResult equals n, and
\* for no error or an error of another kind the ExitCode is 0.
C11_ExitCodeDerivation ==
    out.done =>
        out.ExitCode = IF inp.err.kind = "ssh.ExitError"
                       THEN inp.err.status ELSE 0

-----------------------------------------------------------------------------
(* Claims about the histories (checked under Spec).                        *)

\* C12: over a sequential series of ExecuteCommand calls, a call that runs its
\* command appends exactly its CommandResult at the end of the History of the
\* Server object it was given; a call that does not run appends nothing; no
\* entry already in a History is removed, reordered or modified, so that the
\* entries stand in the order the commands were submitted.
C12_HistoryAppendOnly ==
    [][ /\ \A s \in ServerIds :
              /\ Len(history'[s]) >= Len(history[s])
              /\ SubSeq(history'[s], 1, Len(history[s])) = history[s]
        /\ \A p \in Callers :
              pc'[p] = "done" =>
                 LET call == loc'[p]
                     ran == call.op = "ExecuteCommand" /\ call.ran
                 IN IF ran
                    THEN /\ history'[call.server.id]
                              = call.atCall.history[call.server.id]
                                  \o <<call.result>>
                         /\ \A s \in ServerIds \ {call.server.id} :
                               history'[s] = call.atCall.history[s]
                    ELSE history' = call.atCall.history
      ]_vars

\* two commands with different results ran for one Server object, and the
\* later one is the last entry of its History
C12_Witness ==
    \E p \in Callers :
        /\ DoneCall(p, "ExecuteCommand") /\ loc[p].ran
        /\ Len(history[loc[p].server.id]) = 2
        /\ history[loc[p].server.id][2] = loc[p].result
        /\ history[loc[p].server.id][1] # history[loc[p].server.id][2]

-----------------------------------------------------------------------------
(* Claims about closed connections (checked under Spec).                   *)

\* the client registered under name when the call was made, if its transport
\* was closed by then; 0 otherwise
ClosedEntry(at, name) ==
    IF FindByName(at.connections, name) # 0
       /\ at.connections[FindByName(at.connections, name)].client \in at.closed
    THEN at.connections[FindByName(at.connections, name)].client
    ELSE 0

\* C14: CloseConnection leaves the entry of the closed connection in the
\* registry; a later OpenConnection for its name returns success without a
\* dial and without a change of the registry; a later ExecuteCommand for its
\* name asks the closed transport for a session and fails, with no result and
\* no run; a closed transport is never live again and never leaves the
\* registry.
C14_CloseDoesNotPurge ==
    [][ /\ closed \subseteq closed'
        /\ \A c \in closed' :
              \E i \in 1..Len(connections') : connections'[i].client = c
        /\ \A p \in Callers :
              LET call == loc'[p] IN
              /\ DoneCall(p, "CloseConnection")'
                    => /\ connections' = call.atCall.connections
                       /\ call.client \in closed'
              /\ ( /\ DoneCall(p, "OpenConnection")'
                   /\ ClosedEntry(call.atCall, call.host.Name) # 0 )
                    => /\ call.err = Nil
                       /\ call.dialed = FALSE
                       /\ dials' = call.atCall.dials
                       /\ connections' = call.atCall.connections
              /\ ( /\ DoneCall(p, "ExecuteCommand")'
                   /\ ClosedEntry(call.atCall, call.server.Name) # 0 )
                    => /\ call.connection.client
                            = ClosedEntry(call.atCall, call.server.Name)
                       /\ call.err = [kind |-> "NewSession"]
                       /\ call.result = NoResult
                       /\ call.ran = FALSE
                       /\ call.opened = 0
                       /\ dials' = call.atCall.dials
                       /\ connections' = call.atCall.connections
                       /\ history' = call.atCall.history
      ]_vars

\* ExecuteCommand failed on the closed transport of a registered name, on a
\* service that holds a live connection of another name
C14_Witness ==
    \E p \in Callers :
        /\ DoneCall(p, "ExecuteCommand")
        /\ loc[p].err = [kind |-> "NewSession"]
        /\ loc[p].env.session
        /\ loc[p].connection.client \in closed
        /\ Len(connections) = 2
        /\ \E i \in 1..2 : connections[i].client \notin closed

-----------------------------------------------------------------------------
(* ExecuteCommand step by step: one caller (SpecExecSeq), or several       *)
(* callers at the same time on the shared service (SpecExecConc).  The     *)
(* registry is the one an earlier NewSSHService or OpenConnection left;    *)
(* ExecuteCommand does not write it.                                       *)

\* the registries of the study, with the clients already closed
ExecServices ==
    { [connections |-> <<[host |-> SrvA1, client |-> 1]>>, closed |-> {}],
      [connections |-> <<[host |-> SrvA1, client |-> 1]>>, closed |-> {1}],
      [connections |-> <<[host |-> SrvA2, client |-> 1],
                         [host |-> SrvB, client |-> 2]>>, closed |-> {}],
      [connections |-> <<[host |-> SrvA2, client |-> 1],
                         [host |-> SrvB, client |-> 2]>>, closed |-> {2}] }

\* session.Close() returns nil, io.EOF or another error
CloseErrors == {Nil, [kind |-> "EOF"], [kind |-> "close"]}

\* what one call can meet; close is what the deferred session.Close returns
StepEnvs ==
    [session : {FALSE}, pty : {TRUE}, run : {Nil}, stdout : {<<>>},
     stderr : {<<>>}, close : {Nil}]
    \cup
    [session : {TRUE}, pty : {FALSE}, run : {Nil}, stdout : {<<>>},
     stderr : {<<>>}, close : CloseErrors]
    \cup
    [session : {TRUE}, pty : {TRUE}, run : {Nil},
     stdout : {Pw \o <<NL>> \o <<"h">> \o <<NL>>}, stderr : {<<>>},
     close : CloseErrors]
    \cup
    [session : {TRUE}, pty : {TRUE},
     run : {ExitError(2), ExitError(200), ExitError(256), [kind |-> "io"]},
     stdout : {<<NL>>}, stderr : {NoSuchFile}, close : {Nil, [kind |-> "close"]}]

\* the smaller choice of the concurrent study
ConcEnvs ==
    {e \in StepEnvs : e.close = Nil /\ e.run \in {Nil, ExitError(200)}}

\* the History of the Server objects before the calls
PriorHistories ==
    { [i \in ServerIds |-> <<>>],
      [i \in ServerIds |->
          IF i = 1
          THEN <<[Command |-> <<"c", "0">>, Stdout |-> <<>>, Stderr |-> <<>>,
                  ExitCode |-> 0]>>
          ELSE <<>>] }

InitExec(callers) ==
    /\ \E svc \in ExecServices :
          /\ connections = svc.connections
          /\ closed = svc.closed
          /\ dials = Len(svc.connections)
    /\ allocated = TRUE
    /\ sessions = 0
    /\ history \in PriorHistories
    /\ last = [op |-> "none"]
    /\ pc = [p \in callers |-> "idle"]
    /\ loc = [p \in callers |-> IdleCaller]
    /\ inp = [History |-> history]
    /\ out = <<>>

ExecFrame == <<connections, allocated, dials, closed, last, inp, out>>

\* caller p calls ExecuteCommand(command, server)
CallExecute(p, command, server, env) ==
    /\ pc[p] = "idle"
    /\ pc' = [pc EXCEPT ![p] = "find"]
    /\ loc' = [loc EXCEPT ![p] =
                 [op |-> "ExecuteCommand",
                  server |-> server, command |-> command, env |-> env,
                  connection |-> [host |-> server, client |-> 0],
                  opened |-> 0, released |-> 0, pty |-> FALSE, ran |-> FALSE,
                  stdin |-> <<>>, stdout |-> <<>>, scrubbedWith |-> <<>>,
                  result |-> NoResult, err |-> Nil, slice |-> <<>>,
                  historyAtCall |-> history, atCall |-> AtCall]]
    /\ UNCHANGED <<sessions, history, ExecFrame>>

\* the lookup falling back on the first connection of the registry when no
\* connection carries the name
FindConnectionOrFirst(p) ==
    /\ pc[p] = "find"
    /\ LET i == FindByName(connections, loc[p].server.Name) IN
       IF i = 0 /\ Len(connections) = 0
       THEN /\ loc' = [loc EXCEPT
                         ![p].err = NotFoundError(loc[p].server.Name)]
            /\ pc' = [pc EXCEPT ![p] = "done"]
       ELSE /\ loc' = [loc EXCEPT
                         ![p].connection =
                             connections[IF i = 0 THEN 1 ELSE i]]
            /\ pc' = [pc EXCEPT ![p] = "spawn"]
    /\ UNCHANGED <<sessions, history, ExecFrame>>

\* the lookup keeping the Server it was passed as the host of the connection,
\* on the transport registered under the name
FindConnectionKeepsPassed(p) ==
    /\ pc[p] = "find"
    /\ LET i == FindByName(connections, loc[p].server.Name) IN
       IF i = 0
       THEN /\ loc' = [loc EXCEPT
                         ![p].err = NotFoundError(loc[p].server.Name)]
            /\ pc' = [pc EXCEPT ![p] = "done"]
       ELSE /\ loc' = [loc EXCEPT
                         ![p].connection =
                             [host |-> loc[p].server,
                              client |-> connections[i].client]]
            /\ pc' = [pc EXCEPT ![p] = "spawn"]
    /\ UNCHANGED <<sessions, history, ExecFrame>>

\* lines 149-159: the lookup, and the return when nothing is found
FindConnection(p) ==
    /\ pc[p] = "find"
    /\ LET i == FindByName(connections, loc[p].server.Name) IN
       IF i = 0
       THEN /\ loc' = [loc EXCEPT
                         ![p].err = NotFoundError(loc[p].server.Name)]
            /\ pc' = [pc EXCEPT ![p] = "done"]
       ELSE /\ loc' = [loc EXCEPT ![p].connection = connections[i]]
            /\ pc' = [pc EXCEPT ![p] = "spawn"]
    /\ UNCHANGED <<sessions, history, ExecFrame>>

\* lines 161-164: spawnSession, and the return when it fails
SpawnSession(p) ==
    /\ pc[p] = "spawn"
    /\ IF ~loc[p].env.session \/ loc[p].connection.client \in closed
       THEN /\ loc' = [loc EXCEPT ![p].err = [kind |-> "NewSession"]]
            /\ pc' = [pc EXCEPT ![p] = "done"]
            /\ UNCHANGED sessions
       ELSE /\ loc' = [loc EXCEPT ![p].opened = loc[p].opened + 1]
            /\ sessions' = sessions + 1
            /\ pc' = [pc EXCEPT ![p] = "prime"]
    /\ UNCHANGED <<history, ExecFrame>>

\* lines 173-176: the sinks, and the standard input primed with the password
PrimeStdin(p) ==
    /\ pc[p] = "prime"
    /\ loc' = [loc EXCEPT
                 ![p].stdin = loc[p].connection.host.SudoPassword \o <<NL>>]
    /\ pc' = [pc EXCEPT ![p] = "pty"]
    /\ UNCHANGED <<sessions, history, ExecFrame>>

\* a RequestPty whose refusal is not checked: the command runs all the same
RequestPtyUnchecked(p) ==
    /\ pc[p] = "pty"
    /\ loc' = [loc EXCEPT ![p].pty = loc[p].env.pty]
    /\ pc' = [pc EXCEPT ![p] = "run"]
    /\ UNCHANGED <<sessions, history, ExecFrame>>

\* lines 178-181: RequestPty, and the return when it is refused
RequestPty(p) ==
    /\ pc[p] = "pty"
    /\ IF loc[p].env.pty
       THEN /\ loc' = [loc EXCEPT ![p].pty = TRUE]
            /\ pc' = [pc EXCEPT ![p] = "run"]
       ELSE /\ loc' = [loc EXCEPT ![p].err = [kind |-> "RequestPty"]]
            /\ pc' = [pc EXCEPT ![p] = "release"]
    /\ UNCHANGED <<sessions, history, ExecFrame>>

\* line 183: session.Run(command)
RunCommand(p) ==
    /\ pc[p] = "run"
    /\ loc' = [loc EXCEPT ![p].ran = TRUE,
                          ![p].stdout = loc[p].env.stdout]
    /\ pc' = [pc EXCEPT ![p] = "scrub"]
    /\ UNCHANGED <<sessions, history, ExecFrame>>

\* line 184: extractSudoPasswordFromOutput on the stdout buffer
ScrubOutput(p) ==
    /\ pc[p] = "scrub"
    /\ LET password == loc[p].connection.host.SudoPassword IN
       loc' = [loc EXCEPT
                 ![p].stdout =
                     extractSudoPasswordFromOutput(loc[p].stdout, password),
                 ![p].scrubbedWith = password]
    /\ pc' = [pc EXCEPT ![p] = "build"]
    /\ UNCHANGED <<sessions, history, ExecFrame>>

\* lines 186-192: the ServerCommand, and append(server.History, ...) computed
BuildResult(p) ==
    /\ pc[p] = "build"
    /\ LET serverCommand ==
              [Command |-> loc[p].command, Stdout |-> loc[p].stdout,
               Stderr |-> loc[p].env.stderr,
               ExitCode |-> extractExitCode(loc[p].env.run)]
       IN loc' = [loc EXCEPT
                    ![p].result = serverCommand,
                    ![p].err = loc[p].env.run,
                    ![p].slice = AppendHistory(history[loc[p].server.id],
                                               serverCommand)]
    /\ pc' = [pc EXCEPT ![p] = "history"]
    /\ UNCHANGED <<sessions, history, ExecFrame>>

\* line 192, the write: server.History = ...
AssignHistory(p) ==
    /\ pc[p] = "history"
    /\ history' = [history EXCEPT ![loc[p].server.id] = loc[p].slice]
    /\ pc' = [pc EXCEPT ![p] = "release"]
    /\ UNCHANGED <<sessions, loc, ExecFrame>>

\* the deferred call running the session's Close and returning its error as
\* the error of ExecuteCommand
ReleaseEscalates(p) ==
    /\ pc[p] = "release"
    /\ sessions' = sessions - 1
    /\ loc' = [loc EXCEPT ![p].released = loc[p].released + 1,
                          ![p].err = IF loc[p].env.close.kind \in {"nil", "EOF"}
                                     THEN loc[p].err ELSE loc[p].env.close]
    /\ pc' = [pc EXCEPT ![p] = "done"]
    /\ UNCHANGED <<history, ExecFrame>>

\* lines 166-171: the deferred session.Close(), run as ExecuteCommand returns;
\* its error is printed unless it is EOF
ReleaseSession(p) ==
    /\ pc[p] = "release"
    /\ sessions' = sessions - 1
    /\ loc' = [loc EXCEPT ![p].released = loc[p].released + 1]
    /\ pc' = [pc EXCEPT ![p] = "done"]
    /\ UNCHANGED <<history, ExecFrame>>

ExecSteps(p) ==
    \/ FindConnection(p)
    \/ SpawnSession(p)
    \/ PrimeStdin(p)
    \/ RequestPty(p)
    \/ RunCommand(p)
    \/ ScrubOutput(p)
    \/ BuildResult(p)
    \/ AssignHistory(p)
    \/ ReleaseSession(p)

InitExecSeq == InitExec(Callers)

NextExecSeq ==
    \E p \in Callers :
        \/ \E command \in Commands, server \in Servers, env \in StepEnvs :
              CallExecute(p, command, server, env)
        \/ ExecSteps(p)

SpecExecSeq == InitExecSeq /\ [][NextExecSeq]_vars

InitExecConc == InitExec(Procs)

NextExecConc ==
    \E p \in Procs :
        \/ \E command \in Commands, server \in Servers, env \in ConcEnvs :
              CallExecute(p, command, server, env)
        \/ ExecSteps(p)

SpecExecConc == InitExecConc /\ [][NextExecConc]_vars

-----------------------------------------------------------------------------
(* The service called by one resource, one call after another: every call  *)
(* goes through the steps above, and the next call is made when the call   *)
(* before it has returned.                                                 *)

\* the service of provider.Configure (&services.SSHService{}), or the one
\* NewSSHService returns for a list of servers
Init ==
    /\ \E hosts \in SeqsUpTo(Servers, MaxHosts) :
         \E envs \in [1..Len(hosts) -> DialEnvs] :
            LET svc == NewSSHService(hosts, envs) IN
            /\ connections = svc.connections
            /\ allocated = (Len(svc.connections) > 0)
            /\ dials = svc.dials
    /\ closed = {}
    /\ sessions = 0
    /\ history = [i \in ServerIds |-> <<>>]
    /\ last = [op |-> "new"]
    /\ pc = [p \in Callers |-> "idle"]
    /\ loc = [p \in Callers |-> IdleCaller]
    /\ inp = <<>>
    /\ out = <<>>

\* the call would dial: its name is not registered
WouldDial(host) == FindByName(connections, host.Name) = 0

\* the call would run its command and append to a History
WouldRun(server, env) ==
    LET i == FindByName(connections, server.Name) IN
    /\ i # 0
    /\ env.session /\ env.pty
    /\ connections[i].client \notin closed

OpenSteps(p) ==
    \/ NilCheck(p)
    \/ MakeSlice(p)
    \/ Lookup(p)
    \/ Dial(p)
    \/ ReadSlice(p)
    \/ WriteSlice(p)

Next ==
    \E p \in Callers :
        \/ \E host \in Servers, env \in DialEnvs :
              /\ WouldDial(host) => dials < MaxDials
              /\ CallOpen(p, host, env)
        \/ OpenSteps(p)
        \/ \E command \in Commands, server \in Servers, env \in ExecEnvs :
              /\ WouldRun(server, env) => Executed < MaxExec
              /\ CallExecute(p, command, server, env)
        \/ ExecSteps(p)
        \/ \E i \in 1..Len(connections) : Close(p, i)
        \/ Return(p)

Spec == Init /\ [][Next]_vars

-----------------------------------------------------------------------------
(* getFile, as Create and Read make it: the Server built from the          *)
(* resource, OpenConnection, ExecuteCommand, and the parse of the output.  *)
(* The two service calls go through the steps of the service; the shared   *)
(* service may be written by another resource between them.                *)

FileFrame == <<svcVars, inp>>

\* lines 154-164: the Server is built and OpenConnection called
GetFileOpen(p) ==
    /\ out.phase = "new"
    /\ CallOpen(p, ServerOfData(inp.data), inp.dialEnv)

\* lines 161-164: OpenConnection has returned; its error is returned
GetFileOpened(p) ==
    /\ out.phase = "new"
    /\ DoneCall(p, "OpenConnection")
    /\ IF loc[p].err # Nil
       THEN /\ out' = [done |-> TRUE, phase |-> "returned",
                       status |-> "error", err |-> loc[p].err,
                       data |-> inp.data, command |-> NoResult, ran |-> FALSE,
                       dialed |-> loc[p].dialed, auth |-> loc[p].auth,
                       diag |-> Diagnostics(loc[p].err)]
            /\ pc' = [pc EXCEPT ![p] = "returned"]
            /\ UNCHANGED loc
       ELSE /\ out' = [done |-> FALSE, phase |-> "opened",
                       dialed |-> loc[p].dialed, auth |-> loc[p].auth]
            /\ pc' = [pc EXCEPT ![p] = "idle"]
            /\ loc' = [loc EXCEPT ![p] = IdleCaller]
    /\ UNCHANGED FileFrame

\* the write of another resource's OpenConnection (SSHService.go 92, 112)
\* landing between the two calls of getFile
OtherOpenWrites(p) ==
    /\ out.phase = "opened" /\ pc[p] = "idle"
    /\ last.op = "none"
    /\ LET same == [ServerOfData(inp.data) EXCEPT !.id = "other getFile"]
           other == [same EXCEPT !.Name = OtherHost, !.Address = OtherHost]
           stale == inp.registry
       IN \/ /\ inp.other = "makeslice"
             /\ inp.registry = <<>>
             /\ connections' = <<>>
             /\ UNCHANGED dials
          \/ /\ inp.other = "append same name"
             /\ FindByName(stale, same.Name) = 0
             /\ connections' = Append(stale, [host |-> same,
                                              client |-> dials + 1])
             /\ dials' = dials + 1
          \/ /\ inp.other = "append other name"
             /\ connections' = Append(stale, [host |-> other,
                                              client |-> dials + 1])
             /\ dials' = dials + 1
    /\ allocated' = TRUE
    /\ last' = [op |-> "other OpenConnection"]
    /\ UNCHANGED <<closed, sessions, history, pc, loc, inp, out>>

\* lines 166-174: the combined command is built and ExecuteCommand called
GetFileExecute(p) ==
    /\ out.phase = "opened"
    /\ CallExecute(p, combinedCmd(inp.data), ServerOfData(inp.data),
                   inp.execEnv)

\* lines 175-199: ExecuteCommand has returned; its error, the exit code and
\* the output are dealt with
GetFileParse(p) ==
    /\ out.phase = "opened"
    /\ DoneCall(p, "ExecuteCommand")
    /\ LET command == loc[p].result
           ret(status, err, d) ==
               [done |-> TRUE, phase |-> "returned", status |-> status,
                err |-> err, data |-> d, command |-> command,
                ran |-> loc[p].ran, dialed |-> out.dialed, auth |-> out.auth,
                diag |-> IF status = "panic" THEN <<>> ELSE Diagnostics(err)]
       IN out' =
            IF loc[p].err # Nil THEN ret("error", loc[p].err, inp.data)
            ELSE IF command.ExitCode # 0
            THEN ret("error", ExitCodeError(command.ExitCode, command.Stderr),
                     inp.data)
            ELSE LET q == parseOutput(inp.data, command.Stdout) IN
                 IF q.panic THEN ret("panic", Nil, inp.data)
                 ELSE ret("ok", Nil, q.data)
    /\ pc' = [pc EXCEPT ![p] = "returned"]
    /\ UNCHANGED <<loc, FileFrame>>

NextFile ==
    \E p \in Callers :
        \/ GetFileOpen(p)
        \/ OpenSteps(p)
        \/ GetFileOpened(p)
        \/ OtherOpenWrites(p)
        \/ GetFileExecute(p)
        \/ ExecSteps(p)
        \/ GetFileParse(p)

SpecFile == InitFile /\ [][NextFile]_vars

-----------------------------------------------------------------------------
(* C13, C18, C19: one ExecuteCommand call, step by step.                   *)

\* the sessions a caller holds: allocated and not yet closed
Held(p) == IF pc[p] = "idle" THEN 0 ELSE loc[p].opened - loc[p].released

Returned(p) == pc[p] = "done"

\* C13: every session that ExecuteCommand allocates is closed exactly once
\* before ExecuteCommand returns, whether the pseudo-terminal was refused,
\* the run failed or the run succeeded; and the step that closes the session
\* leaves the result and the error to be returned as they were, whatever
\* session.Close() answered.
C13_SessionReleased ==
    [][\A p \in Callers :
          /\ Held(p)' \in {0, 1}
          /\ sessions' = Held(p)'
          /\ Returned(p)' => Held(p)' = 0
          /\ (pc[p] # "idle" /\ loc[p].opened = 1 /\ ~Returned(p))
                => loc'[p].opened = 1
          /\ (pc[p] # "idle" /\ loc'[p].released # loc[p].released)
                => /\ loc[p].released = 0 /\ loc'[p].released = 1
                   /\ Returned(p)'
                   /\ loc'[p].result = loc[p].result
                   /\ loc'[p].err = loc[p].err]_vars

\* a call that ran its command to success returned with its session closed,
\* though closing the session gave an error
C13_Witness ==
    \E p \in Callers :
        /\ Returned(p) /\ loc[p].opened = 1 /\ loc[p].released = 1
        /\ loc[p].env.close = [kind |-> "close"]
        /\ loc[p].ran /\ loc[p].err = Nil /\ loc[p].result # NoResult

\* C18: whenever the command was run, ExecuteCommand returns a non-nil
\* CommandResult, appended to the server's history, together with exactly the
\* error the run ended with; a non-zero remote exit reaches the caller as a
\* non-zero ExitCode and a non-nil error.
C18_RunResultReturned ==
    \A p \in Callers :
        (Returned(p) /\ loc[p].ran) =>
            /\ loc[p].result # NoResult
            /\ history[loc[p].server.id]
                 = loc[p].historyAtCall[loc[p].server.id] \o <<loc[p].result>>
            /\ loc[p].err = loc[p].env.run
            /\ loc[p].env.run.kind = "ssh.ExitError"
                  => loc[p].result.ExitCode # 0 /\ loc[p].err # Nil

\* the call failed before the command: no session, or no pseudo-terminal
FailedBeforeRun(p) ==
    /\ Returned(p)
    /\ FindByName(connections, loc[p].server.Name) # 0
    /\ \/ ~loc[p].env.session
       \/ loc[p].connection.client \in closed
       \/ ~loc[p].env.pty

\* C19: the command is run only with a session allocated (and still open)
\* and the pseudo-terminal granted; when the session allocation fails or the
\* pseudo-terminal is refused, the command is never run, no CommandResult is
\* returned and the server's history is as it was at the call.
C19_StepOrdering ==
    [][\A p \in Callers :
          /\ (pc[p] # "idle" /\ ~loc[p].ran /\ loc'[p].ran)
                => /\ loc[p].opened = 1 /\ loc[p].released = 0
                   /\ loc[p].pty /\ loc[p].env.pty
          /\ FailedBeforeRun(p)'
                => /\ ~loc'[p].ran
                   /\ loc'[p].result = NoResult
                   /\ loc'[p].err # Nil
                   /\ history' = loc'[p].historyAtCall]_vars

\* a call whose pseudo-terminal was refused has returned, its session closed
C19_Witness ==
    \E p \in Callers :
        /\ FailedBeforeRun(p) /\ loc[p].opened = 1 /\ ~loc[p].env.pty
        /\ loc[p].err = [kind |-> "RequestPty"]
        /\ history[1] # <<>>

-----------------------------------------------------------------------------
(* C20: ExecuteCommand calls at the same time on one Server object.        *)

AllReturnedExec == \A p \in Procs : pc[p] = "done"

\* the callers that ran their command against Server object id
RanOn(id) == {p \in Procs : loc[p].ran /\ loc[p].server.id = id}

\* the entries of h equal to result
Occurrences(h, result) == Cardinality({k \in 1..Len(h) : h[k] = result})

\* C20: when all concurrent ExecuteCommand calls have returned, every call
\* that ran its command has its CommandResult in the History of its Server
\* exactly once: the History grew by one entry for each such call, none lost
\* and none duplicated; and each call scrubbed its output with the password
\* it primed its session with.
C20_ConcurrentHistory ==
    AllReturnedExec =>
        \A p \in Procs :
            loc[p].ran =>
                LET id == loc[p].server.id
                    before == inp.History[id]
                    same == {q \in RanOn(id) : loc[q].result = loc[p].result}
                IN /\ Occurrences(history[id], loc[p].result)
                        = Occurrences(before, loc[p].result) + Cardinality(same)
                   /\ loc[p].stdin = loc[p].scrubbedWith \o <<NL>>

-----------------------------------------------------------------------------
(* C15, C17: Create and Read around getFile.                               *)

\* C15: a getFile failure caused by a non-zero remote exit code is reported
\* with the command-error diagnostic, carrying an ExitCodeError (exit code
\* and stderr), and not with the diagnostic of a failure to connect or to
\* execute.
C15_ExitDiagnosticDistinct ==
    (FileRan /\ inp.execEnv.run.kind = "ssh.ExitError") =>
        /\ Len(out.diag) = 1
        /\ out.diag[1].summary = "Command Error"
        /\ out.diag[1].cause.kind = "ExitCodeError"

\* C17: a host connection configured with a password and no private key is
\* dialed with password authentication in its authentication method list;
\* the descriptor carries the user and the private-key path given.
C17_CredentialsCarried ==
    (out.done /\ out.dialed) =>
        /\ (inp.data.Password # <<>>
              /\ inp.data.PrivateKey = <<>>)
              => \E k \in 1..Len(out.auth) : out.auth[k] = "password"
        /\ ServerOfData(inp.data).User = inp.data.User
        /\ ServerOfData(inp.data).PrivateKeyPath
              = inp.data.PrivateKey
        /\ ServerOfData(inp.data).Password = inp.data.Password

-----------------------------------------------------------------------------
(* The bulk open: the loop of NewSSHService, one server of the list at a   *)
(* time, on generated lists of servers and dial outcomes.                  *)

MaxBatch == 3

BatchInputs ==
    UNION { [hosts : [1..n -> Servers], envs : [1..n -> DialEnvs]] :
              n \in 0..MaxBatch }

InitBulk ==
    /\ inp \in BatchInputs
    /\ connections = <<>>
    /\ allocated = FALSE
    /\ dials = 0
    /\ closed = {}
    /\ sessions = 0
    /\ history = [i \in ServerIds |-> <<>>]
    /\ last = [op |-> "none"]
    /\ pc = "loop"
    /\ loc = [i |-> 1]
    /\ out = [log |-> <<>>]

BulkFrame == <<allocated, closed, sessions, history, last, inp>>

\* the loop body with the first failure ending the loop
BulkOpenAborts ==
    /\ pc = "loop" /\ loc.i <= Len(inp.hosts)
    /\ LET host == inp.hosts[loc.i]
           c == createSSHClient(host, inp.envs[loc.i])
       IN IF FindByName(connections, host.Name) # 0
          THEN /\ out' = [log |-> Append(out.log, "skipped")]
               /\ loc' = [i |-> loc.i + 1]
               /\ UNCHANGED <<connections, dials>>
          ELSE /\ dials' = IF c.dialed THEN dials + 1 ELSE dials
               /\ IF c.err # Nil
                  THEN /\ out' = [log |-> Append(out.log, "failed")]
                       /\ loc' = [i |-> Len(inp.hosts) + 1]
                       /\ UNCHANGED connections
                  ELSE /\ out' = [log |-> Append(out.log, "registered")]
                       /\ loc' = [i |-> loc.i + 1]
                       /\ connections' =
                            Append(connections,
                                   [host |-> host, client |-> dials + 1])
    /\ UNCHANGED <<pc, BulkFrame>>

\* lines 60-82: the loop body for the next host of the list
BulkOpenStep ==
    /\ pc = "loop" /\ loc.i <= Len(inp.hosts)
    /\ LET host == inp.hosts[loc.i]
           c == createSSHClient(host, inp.envs[loc.i])
       IN IF FindByName(connections, host.Name) # 0
          THEN /\ out' = [log |-> Append(out.log, "skipped")]
               /\ UNCHANGED <<connections, dials>>
          ELSE /\ dials' = IF c.dialed THEN dials + 1 ELSE dials
               /\ IF c.err # Nil
                  THEN /\ out' = [log |-> Append(out.log, "failed")]
                       /\ UNCHANGED connections
                  ELSE /\ out' = [log |-> Append(out.log, "registered")]
                       /\ connections' =
                            Append(connections,
                                   [host |-> host, client |-> dials + 1])
    /\ loc' = [i |-> loc.i + 1]
    /\ UNCHANGED <<pc, BulkFrame>>

\* lines 84-86: the service returned when the list is exhausted
BulkReturn ==
    /\ pc = "loop" /\ loc.i > Len(inp.hosts)
    /\ pc' = "returned"
    /\ allocated' = (connections # <<>>)
    /\ UNCHANGED <<connections, dials, closed, sessions, history, last, inp,
                   loc, out>>

NextBulk == BulkOpenStep \/ BulkReturn

SpecBulk == InitBulk /\ [][NextBulk]_vars

\* the dial of the k-th server of the list succeeds when it is made
DialSucceeds(k) == createSSHClient(inp.hosts[k], inp.envs[k]).err = Nil

\* the servers of the list before the k-th with the same name
EarlierSameName(k) ==
    {j \in 1..(k - 1) : inp.hosts[j].Name = inp.hosts[k].Name}

\* C16: NewSSHService processes every server of the list, in list order,
\* whatever dials fail; it dials a server only if no connection for its name
\* was registered earlier in the batch; and the registry it returns holds
\* exactly one connection for each name that had a successful dial (that of
\* the first server of the name whose dial succeeds) and none for any other
\* name.
C16_BulkBestEffort ==
    /\ Len(out.log) = loc.i - 1
    /\ loc.i <= Len(inp.hosts) + 1
    /\ \A k \in 1..Len(out.log) :
          LET registeredEarlier ==
                 \E j \in EarlierSameName(k) : out.log[j] = "registered"
          IN /\ out.log[k] = "skipped" <=> registeredEarlier
             /\ out.log[k] = "registered"
                   <=> (~registeredEarlier /\ DialSucceeds(k))
             /\ out.log[k] = "failed"
                   <=> (~registeredEarlier /\ ~DialSucceeds(k))
    /\ pc = "returned" =>
          /\ Len(out.log) = Len(inp.hosts)
          /\ connections = NewSSHService(inp.hosts, inp.envs).connections
          /\ \A s \in Servers :
                LET good == {k \in 1..Len(inp.hosts) :
                                inp.hosts[k].Name = s.Name /\ DialSucceeds(k)}
                IN IF good = {}
                   THEN CountName(connections, s.Name) = 0
                   ELSE /\ CountName(connections, s.Name) = 1
                        /\ LET first == CHOOSE k \in good :
                                           \A j \in good : k <= j
                           IN connections[FindByName(connections, s.Name)].host
                                = inp.hosts[first]

\* a batch returned in which a dial failed, a later server of the same name
\* was registered, and a third server of that name was skipped
C16_Witness ==
    /\ pc = "returned"
    /\ out.log = <<"failed", "registered", "skipped">>
    /\ Len(connections) = 1

-----------------------------------------------------------------------------
(* C21: the connection ExecuteCommand uses is the one registered under the *)
(* name of the Server it is passed.                                        *)

\* the connection registered under the name of server when the call was made
RegisteredFor(at, server) ==
    at.connections[FindByName(at.connections, server.Name)]

\* C21: an ExecuteCommand for a server whose name is registered uses the
\* transport of the registered connection, primes the session with the
\* sudoPassword of the registered Server and scrubs the output with it,
\* whatever the address, user, credentials and sudoPassword of the Server it
\* was passed; the result goes to the History of the passed Server only, and
\* the registry, with the sudoPassword of every registered Server, is left
\* as it was.
C21_ReuseKeyedByName ==
    \A p \in Callers :
        ( /\ DoneCall(p, "ExecuteCommand")
          /\ FindByName(loc[p].atCall.connections, loc[p].server.Name) # 0 )
        => LET call == loc[p]
               reg == RegisteredFor(call.atCall, call.server)
           IN /\ call.connection = reg
              /\ call.opened = 1
                    => call.stdin = reg.host.SudoPassword \o <<NL>>
              /\ call.ran =>
                    /\ call.scrubbedWith = reg.host.SudoPassword
                    /\ call.result.Stdout
                         = extractSudoPasswordFromOutput(call.env.stdout,
                                                         reg.host.SudoPassword)
                    /\ history[call.server.id]
                         = call.atCall.history[call.server.id]
                             \o <<call.result>>
              /\ ~call.ran
                    => history[call.server.id]
                         = call.atCall.history[call.server.id]
              /\ \A i \in ServerIds \ {call.server.id} :
                    history[i] = call.atCall.history[i]
              /\ connections = call.atCall.connections

\* a command ran for a Server that is not the registered one of its name and
\* carries another sudoPassword: the session was primed with the registered
\* password, and the passed password would have scrubbed otherwise
C21_Witness ==
    \E p \in Callers :
        /\ DoneCall(p, "ExecuteCommand") /\ loc[p].ran
        /\ LET call == loc[p]
               reg == RegisteredFor(call.atCall, call.server)
               passed == call.server
           IN /\ reg.host.id # passed.id
              /\ reg.host.Address # passed.Address
              /\ reg.host.SudoPassword # passed.SudoPassword
              /\ call.stdin = reg.host.SudoPassword \o <<NL>>
              /\ call.result.Stdout
                   # extractSudoPasswordFromOutput(call.env.stdout,
                                                   passed.SudoPassword)
              /\ history[passed.id] # <<>> /\ history[reg.host.id] = <<>>

-----------------------------------------------------------------------------
(* C22: the scrubbing as getFile meets it, the stored sudoPassword empty.  *)

\* what the remote wrote, and what getFile splits into lines
RawStdout == inp.execEnv.stdout

ParsedStdout == out.command.Stdout

RawHasPrompt == Contains(RawStdout, SudoMarker)

\* the sudoPassword getFile supplies, and every one it registered, is empty
EmptySudoPasswords ==
    /\ ServerOfData(inp.data).SudoPassword = <<>>
    /\ \A i \in 1..Len(connections) : connections[i].host.SudoPassword = <<>>

\* C22, as stated: with the empty sudoPassword that getFile supplies, every
\* line counts as holding the password; without a prompt marker the first
\* line is dropped, with one every line is dropped and stdout is empty; and
\* the stdout getFile parses is the raw stdout minus its first line.
C22_ParsedIsRawMinusFirstLine ==
    FileRan =>
        /\ EmptySudoPasswords
        /\ ~RawHasPrompt => ParsedStdout = AfterFirstLine(RawStdout)
        /\ RawHasPrompt => ParsedStdout = <<>>
        /\ ParsedStdout = AfterFirstLine(RawStdout)

\* C22, amended: with the empty sudoPassword that getFile supplies, every
\* line counts as holding the password; the stdout getFile parses is the raw
\* stdout minus its first line when the raw stdout holds no prompt marker,
\* and is empty when it holds one.
C22_ScrubWithEmptyPassword ==
    FileRan =>
        /\ EmptySudoPasswords
        /\ \A i \in 1..Len(Split(RawStdout, NL)) :
              Contains(Split(RawStdout, NL)[i],
                       ServerOfData(inp.data).SudoPassword)
        /\ ParsedStdout = IF RawHasPrompt THEN <<>>
                          ELSE AfterFirstLine(RawStdout)

\* a run whose stdout held a prompt marker and text after its first line:
\* getFile was left with an empty stdout
C22_Witness ==
    /\ FileRan
    /\ RawHasPrompt
    /\ AfterFirstLine(RawStdout) # <<>>
    /\ ~Contains(AfterFirstLine(RawStdout), SudoMarker)
    /\ ParsedStdout = <<>>

=============================================================================
